---- MODULE Spec2Model ----
(***************************************************************************)
(* Model of vs_merge.py: the keyed inner join of two spreadsheets          *)
(* (extract_and_merge_columns_basic / _with_delay), the delay derivation   *)
(* (calculate_delay_days, calculate_delay_status) and the two button       *)
(* handlers of main().                                                     *)
(*                                                                         *)
(* A string is a sequence of one-character strings, so that str.join and   *)
(* the '%H:%M:%S' parse are computed character by character.  A cell is a  *)
(* tagged value: a string, an integer or NaN (an empty spreadsheet cell).  *)
(* A DataFrame is [columns, rows]: the ordered column labels and the rows, *)
(* each row a sequence of cells aligned with the labels.                   *)
(***************************************************************************)
EXTENDS Integers, Sequences, FiniteSets, TLC

VARIABLES old_file, new_file, args, out, pc, old_before, new_before

vars == <<old_file, new_file, args, out, pc, old_before, new_before>>

\* ---------------------------------------------------------------- bounds
MaxRows == 2
MaxKeyParts == 2
MaxStatusMagnitude == 30

\* ------------------------------------------------------- program constants
SecondsPerDay == 86400
AdvanceLow == -14
AdvanceHigh == -1
DelayLow == 1
DelayHigh == 14

\* ------------------------------------------------------------------ cells
StrCell(s) == [t |-> "str", s |-> s]
IntCell(n) == [t |-> "int", n |-> n]
NaN == [t |-> "nan"]
NumCell(n) == [t |-> "num", n |-> n]

IsNaN(c) == c.t = "nan"

Digits == <<"0", "1", "2", "3", "4", "5", "6", "7", "8", "9">>

IsDigit(ch) == \E i \in 1..10 : Digits[i] = ch

DigitVal(ch) == (CHOOSE i \in 1..10 : Digits[i] = ch) - 1

RECURSIVE NatToStr(_)
NatToStr(n) ==
    IF n < 10 THEN <<Digits[n + 1]>>
    ELSE NatToStr(n \div 10) \o <<Digits[(n % 10) + 1]>>

\* astype(str) on one cell: str(value); NaN prints as 'nan'.
AsTypeStr(c) ==
    CASE c.t = "str" -> c.s
      [] c.t = "int" -> IF c.n < 0 THEN <<"-">> \o NatToStr(-c.n) ELSE NatToStr(c.n)
      [] c.t = "nan" -> <<"n", "a", "n">>

\* faulty variant: ''.join(parts), the separator forgotten
RECURSIVE JoinNoSep(_)
JoinNoSep(parts) ==
    IF Len(parts) = 0 THEN <<>>
    ELSE parts[1] \o JoinNoSep(Tail(parts))

\* '_'.join(parts)
RECURSIVE UnderscoreJoin(_)
UnderscoreJoin(parts) ==
    IF Len(parts) = 0 THEN <<>>
    ELSE IF Len(parts) = 1 THEN parts[1]
    ELSE parts[1] \o <<"_">> \o UnderscoreJoin(Tail(parts))

\* row[keys].astype(str).agg('_'.join): the composite key of one row's key cells
CompositeKey(cells) == UnderscoreJoin([i \in DOMAIN cells |-> AsTypeStr(cells[i])])

\* ------------------------------------------------------------ time parsing
NaT == [ok |-> FALSE]
Timestamp(secs) == [ok |-> TRUE, secs |-> secs]

\* index of the first ':' of s at or after position i, or Len(s) + 1
RECURSIVE FindColon(_, _)
FindColon(s, i) ==
    IF i > Len(s) THEN Len(s) + 1
    ELSE IF s[i] = ":" THEN i
    ELSE FindColon(s, i + 1)

\* a %H, %M or %S field: one or two digits (the leading zero is optional)
IsField(f) == Len(f) \in {1, 2} /\ \A i \in DOMAIN f : IsDigit(f[i])

FieldVal(f) ==
    IF Len(f) = 1 THEN DigitVal(f[1]) ELSE 10 * DigitVal(f[1]) + DigitVal(f[2])

\* the match of one string against format='%H:%M:%S'; errors='coerce' turns a
\* mismatch into NaT.  The date defaults to 1900-01-01 for every value, so a
\* timestamp is represented by its seconds since that midnight.
Strptime(s) ==
    LET c1 == FindColon(s, 1)
        c2 == FindColon(s, c1 + 1)
        h == SubSeq(s, 1, c1 - 1)
        m == SubSeq(s, c1 + 1, c2 - 1)
        sec == SubSeq(s, c2 + 1, Len(s))
    IN  IF /\ c2 <= Len(s)
           /\ IsField(h) /\ IsField(m) /\ IsField(sec)
           /\ FieldVal(h) <= 23 /\ FieldVal(m) <= 59 /\ FieldVal(sec) <= 59
        THEN Timestamp(FieldVal(h) * 3600 + FieldVal(m) * 60 + FieldVal(sec))
        ELSE NaT

\* pd.to_datetime(value, format='%H:%M:%S', errors='coerce') on one cell
ToDatetime(c) == IF IsNaN(c) THEN NaT ELSE Strptime(AsTypeStr(c))

\* faulty variant: rounds down (np.floor) instead of up
CeilDiv_Floor(num, den) == num \div den

\* np.ceil(num / den) for den > 0
CeilDiv(num, den) == -((-num) \div den)

\* faulty variant: a value that does not parse counts as midnight (NaT filled with 0)
DelayDaysOf_Filled(etb_atb, proforma) ==
    LET e == ToDatetime(etb_atb)
        p == ToDatetime(proforma)
        es == IF e.ok THEN e.secs ELSE 0
        ps == IF p.ok THEN p.secs ELSE 0
    IN  NumCell(CeilDiv(es - ps, SecondsPerDay))

\* calculate_delay_days on one pair of cells
DelayDaysOf(etb_atb, proforma) ==
    LET e == ToDatetime(etb_atb)
        p == ToDatetime(proforma)
    IN  IF e.ok /\ p.ok THEN NumCell(CeilDiv(e.secs - p.secs, SecondsPerDay)) ELSE NaN

\* calculate_delay_days on two aligned columns
calculate_delay_days(etb_atb_col, proforma_col) ==
    [i \in DOMAIN etb_atb_col |-> DelayDaysOf(etb_atb_col[i], proforma_col[i])]

\* faulty variant: the lower end of each range is excluded
calculate_delay_status_Exclusive(delay_days) ==
    IF IsNaN(delay_days) THEN NaN
    ELSE IF AdvanceLow < delay_days.n /\ delay_days.n <= AdvanceHigh
         THEN StrCell(<<"A", "d", "v", "a", "n", "c", "e">>)
    ELSE IF DelayLow < delay_days.n /\ delay_days.n <= DelayHigh
         THEN StrCell(<<"D", "e", "l", "a", "y">>)
    ELSE NaN

calculate_delay_status(delay_days) ==
    IF IsNaN(delay_days) THEN NaN
    ELSE IF AdvanceLow <= delay_days.n /\ delay_days.n <= AdvanceHigh
         THEN StrCell(<<"A", "d", "v", "a", "n", "c", "e">>)
    ELSE IF DelayLow <= delay_days.n /\ delay_days.n <= DelayHigh
         THEN StrCell(<<"D", "e", "l", "a", "y">>)
    ELSE NaN

\* ------------------------------------------------------------- DataFrames
DataFrame(columns, rows) == [columns |-> columns, rows |-> rows]

NoTable == DataFrame(<<>>, <<>>)

InSeq(x, sq) == \E i \in DOMAIN sq : sq[i] = x

HasColumn(df, name) == \E j \in DOMAIN df.columns : df.columns[j] = name

\* all(c in df.columns for c in names)
HasColumns(df, names) == \A i \in DOMAIN names : HasColumn(df, names[i])

ColIndex(df, name) == CHOOSE j \in DOMAIN df.columns : df.columns[j] = name

\* df[name]: the column as a sequence of cells
Column(df, name) == [r \in DOMAIN df.rows |-> df.rows[r][ColIndex(df, name)]]

\* df[names]: the listed columns, in the listed order, rows in order
Select(df, names) ==
    DataFrame(names,
              [r \in DOMAIN df.rows |->
                  [i \in DOMAIN names |-> df.rows[r][ColIndex(df, names[i])]]])

\* df[keys].astype(str).agg('_'.join, axis=1)
UniqueKeys(df, keys) ==
    [r \in DOMAIN df.rows |-> StrCell(CompositeKey(Select(df, keys).rows[r]))]

\* df[name] = values: overwrites the column when it exists, appends it otherwise
SetColumn(df, name, values) ==
    IF HasColumn(df, name)
    THEN DataFrame(df.columns,
                   [r \in DOMAIN df.rows |->
                       [df.rows[r] EXCEPT ![ColIndex(df, name)] = values[r]]])
    ELSE DataFrame(Append(df.columns, name),
                   [r \in DOMAIN df.rows |-> Append(df.rows[r], values[r])])

\* faulty variant: the astype(str) conversion is also written back to the key columns
SetUniqueKey_InPlace(df, keys) ==
    LET keyed == SetColumn(df, "UniqueKey", UniqueKeys(df, keys))
    IN  DataFrame(keyed.columns,
                  [r \in DOMAIN keyed.rows |->
                      [j \in DOMAIN keyed.columns |->
                          IF InSeq(keyed.columns[j], keys)
                          THEN StrCell(AsTypeStr(keyed.rows[r][j]))
                          ELSE keyed.rows[r][j]]])

\* df['UniqueKey'] = df[keys].astype(str).agg('_'.join, axis=1)
SetUniqueKey(df, keys) == SetColumn(df, "UniqueKey", UniqueKeys(df, keys))

\* pd.merge renames a non-key label that occurs on both sides
Suffixed(names, others, suffix) ==
    [i \in DOMAIN names |->
        IF InSeq(names[i], others) THEN names[i] \o suffix ELSE names[i]]

\* faulty variant: every row of right matches (a cross join)
Matches_All(right, key) == [i \in DOMAIN right.rows |-> Tail(right.rows[i])]

\* the rows of right whose UniqueKey (first cell) equals key, in right order,
\* each without its key cell
Matches(right, key) ==
    LET hit(row) == row[1] = key
        m == SelectSeq(right.rows, hit)
    IN  [i \in DOMAIN m |-> Tail(m[i])]

\* one combined row per matching (left row, right row) pair: left rows in
\* left order, the matches of one left row in right order
RECURSIVE InnerRows(_, _)
InnerRows(leftRows, right) ==
    IF Len(leftRows) = 0 THEN <<>>
    ELSE LET l == leftRows[1]
             m == Matches(right, l[1])
         IN  [i \in DOMAIN m |-> l \o m[i]] \o InnerRows(Tail(leftRows), right)

\* faulty variant: the frames are passed in the other order, pd.merge(new_data, old_data)
PdMerge_Swapped(left, right) ==
    DataFrame(<<"UniqueKey">>
                 \o Suffixed(Tail(right.columns), Tail(left.columns), "_x")
                 \o Suffixed(Tail(left.columns), Tail(right.columns), "_y"),
              InnerRows(right.rows, left))

\* pd.merge(left, right, on='UniqueKey', how='inner'); both frames carry
\* UniqueKey as their first column
PdMerge(left, right) ==
    DataFrame(<<"UniqueKey">>
                 \o Suffixed(Tail(left.columns), Tail(right.columns), "_x")
                 \o Suffixed(Tail(right.columns), Tail(left.columns), "_y"),
              InnerRows(left.rows, right))

\* faulty variant: the call to drop_duplicates is missing
DropDuplicates_None(df) == df

\* faulty variant: drop_duplicates(subset='UniqueKey', keep='last')
DropDuplicates_Last(df) ==
    LET k == ColIndex(df, "UniqueKey")
        n == Len(df.rows)
        kept == {i \in 1..n : \A j \in (i + 1)..n : df.rows[j][k] # df.rows[i][k]}
        RECURSIVE Pick(_)
        Pick(i) ==
            IF i > n THEN <<>>
            ELSE IF i \in kept THEN <<df.rows[i]>> \o Pick(i + 1)
            ELSE Pick(i + 1)
    IN  DataFrame(df.columns, Pick(1))

\* df.drop_duplicates(subset='UniqueKey'): keep='first'
DropDuplicates(df) ==
    LET k == ColIndex(df, "UniqueKey")
        n == Len(df.rows)
        kept == {i \in 1..n : \A j \in 1..(i - 1) : df.rows[j][k] # df.rows[i][k]}
        RECURSIVE Pick(_)
        Pick(i) ==
            IF i > n THEN <<>>
            ELSE IF i \in kept THEN <<df.rows[i]>> \o Pick(i + 1)
            ELSE Pick(i + 1)
    IN  DataFrame(df.columns, Pick(1))

\* ------------------------------------------------------------ merge core
\* The effect of one call: the caller's two frames as the call leaves them,
\* how the call ended ("ok": the merged file was written and its path
\* returned; "KeyError": the exception propagated), the table written, and
\* whether pd.merge had run.
Effect(of, nf, status, table, joined) ==
    [old_file |-> of, new_file |-> nf, status |-> status, table |-> table,
     joined |-> joined]

extract_and_merge_columns_basic(of, nf, old_keys, new_keys, old_cols, new_cols) ==
    IF ~HasColumns(of, old_keys) THEN Effect(of, nf, "KeyError", NoTable, FALSE)
    ELSE LET of1 == SetUniqueKey(of, old_keys) IN
    IF ~HasColumns(nf, new_keys) THEN Effect(of1, nf, "KeyError", NoTable, FALSE)
    ELSE LET nf1 == SetUniqueKey(nf, new_keys) IN
    IF ~HasColumns(of1, old_cols) THEN Effect(of1, nf1, "KeyError", NoTable, FALSE)
    ELSE LET old_data == Select(of1, <<"UniqueKey">> \o old_cols) IN
    IF ~HasColumns(nf1, new_cols) THEN Effect(of1, nf1, "KeyError", NoTable, FALSE)
    ELSE LET new_data == Select(nf1, <<"UniqueKey">> \o new_cols)
             merged_data == DropDuplicates(PdMerge(old_data, new_data))
         IN  Effect(of1, nf1, "ok", merged_data, TRUE)

\* faulty variant: the delay columns are skipped when their inputs are absent, and the
\* merged table is written without them
extract_and_merge_columns_with_delay_Skip(of, nf, old_keys, new_keys, old_cols, new_cols) ==
    IF ~HasColumns(of, old_keys) THEN Effect(of, nf, "KeyError", NoTable, FALSE)
    ELSE LET of1 == SetUniqueKey(of, old_keys) IN
    IF ~HasColumns(nf, new_keys) THEN Effect(of1, nf, "KeyError", NoTable, FALSE)
    ELSE LET nf1 == SetUniqueKey(nf, new_keys) IN
    IF ~HasColumns(of1, old_cols) THEN Effect(of1, nf1, "KeyError", NoTable, FALSE)
    ELSE LET old_data == Select(of1, <<"UniqueKey">> \o old_cols) IN
    IF ~HasColumns(nf1, new_cols) THEN Effect(of1, nf1, "KeyError", NoTable, FALSE)
    ELSE LET new_data == Select(nf1, <<"UniqueKey">> \o new_cols)
             merged_data == DropDuplicates(PdMerge(old_data, new_data))
         IN
    IF ~HasColumn(merged_data, "ETB / ATB") \/ ~HasColumn(merged_data, "Proforma Berth")
    THEN Effect(of1, nf1, "ok", merged_data, TRUE)
    ELSE LET days == calculate_delay_days(Column(merged_data, "ETB / ATB"),
                                          Column(merged_data, "Proforma Berth"))
             with_days == SetColumn(merged_data, "Delay Days", days)
             status == [r \in DOMAIN with_days.rows |->
                           calculate_delay_status(Column(with_days, "Delay Days")[r])]
         IN  Effect(of1, nf1, "ok", SetColumn(with_days, "Delay Status", status), TRUE)

extract_and_merge_columns_with_delay(of, nf, old_keys, new_keys, old_cols, new_cols) ==
    IF ~HasColumns(of, old_keys) THEN Effect(of, nf, "KeyError", NoTable, FALSE)
    ELSE LET of1 == SetUniqueKey(of, old_keys) IN
    IF ~HasColumns(nf, new_keys) THEN Effect(of1, nf, "KeyError", NoTable, FALSE)
    ELSE LET nf1 == SetUniqueKey(nf, new_keys) IN
    IF ~HasColumns(of1, old_cols) THEN Effect(of1, nf1, "KeyError", NoTable, FALSE)
    ELSE LET old_data == Select(of1, <<"UniqueKey">> \o old_cols) IN
    IF ~HasColumns(nf1, new_cols) THEN Effect(of1, nf1, "KeyError", NoTable, FALSE)
    ELSE LET new_data == Select(nf1, <<"UniqueKey">> \o new_cols)
             merged_data == DropDuplicates(PdMerge(old_data, new_data))
         IN
    IF ~HasColumn(merged_data, "ETB / ATB") \/ ~HasColumn(merged_data, "Proforma Berth")
    THEN Effect(of1, nf1, "KeyError", NoTable, TRUE)
    ELSE LET days == calculate_delay_days(Column(merged_data, "ETB / ATB"),
                                          Column(merged_data, "Proforma Berth"))
             with_days == SetColumn(merged_data, "Delay Days", days)
             status == [r \in DOMAIN with_days.rows |->
                           calculate_delay_status(Column(with_days, "Delay Days")[r])]
         IN  Effect(of1, nf1, "ok", SetColumn(with_days, "Delay Status", status), TRUE)

\* main(): the check of the keys and columns that precedes the call, and the
\* try/except around it (both files uploaded)
ColumnsFound(df, keys, cols) == HasColumns(df, keys) /\ HasColumns(df, cols)

MainGuarded(of, nf, old_keys, new_keys, old_cols, new_cols, call) ==
    IF ~ColumnsFound(of, old_keys, old_cols)
    THEN Effect(of, nf, "st.error: not found in Excel A", NoTable, FALSE)
    ELSE IF ~ColumnsFound(nf, new_keys, new_cols)
    THEN Effect(of, nf, "st.error: not found in Excel B", NoTable, FALSE)
    ELSE IF call.status = "ok" THEN call
    ELSE [call EXCEPT !.status = "st.error: An error occurred"]

main_basic(of, nf, old_keys, new_keys, old_cols, new_cols) ==
    MainGuarded(of, nf, old_keys, new_keys, old_cols, new_cols,
        extract_and_merge_columns_basic(of, nf, old_keys, new_keys, old_cols, new_cols))

main_with_delay(of, nf, old_keys, new_keys, old_cols, new_cols) ==
    MainGuarded(of, nf, old_keys, new_keys, old_cols, new_cols,
        extract_and_merge_columns_with_delay(of, nf, old_keys, new_keys, old_cols, new_cols))

\* ------------------------------------------------- inputs of the merge model
Vessels == {<<"A">>, <<"B">>}

T_10_00_00 == <<"1", "0", ":", "0", "0", ":", "0", "0">>
T_09_59_00 == <<"0", "9", ":", "5", "9", ":", "0", "0">>
T_09_00_00 == <<"0", "9", ":", "0", "0", ":", "0", "0">>
NotATime == <<"n", "/", "a">>

\* (ETB / ATB, Proforma Berth) of one row of the berthing report
TimePairs ==
    { <<StrCell(T_10_00_00), StrCell(T_09_59_00)>>,
      <<StrCell(NotATime), StrCell(T_09_00_00)>>,
      <<StrCell(T_10_00_00), NaN>> }

LeftColumns == <<"Vessel", "Voy", "X">>
RightColumns == <<"Vessel", "Voy", "X", "ETB / ATB", "Proforma Berth">>

\* row r of Excel A: the voyage is a number, X tells the rows apart
LeftRow(r, vessel) == <<StrCell(vessel), IntCell(1), StrCell(<<"x", Digits[r + 1]>>)>>

\* row r of Excel B: the voyage is text
RightRow(r, vessel, times) ==
    <<StrCell(vessel), StrCell(<<"1">>), StrCell(<<"y", Digits[r + 1]>>),
      times[1], times[2]>>

\* Excel A, as read, or as the merged report of a first pass (which carries a
\* UniqueKey column)
LeftTables ==
    UNION { UNION { { DataFrame(LeftColumns, [r \in 1..n |-> LeftRow(r, v[r])]),
                      DataFrame(Append(LeftColumns, "UniqueKey"),
                                [r \in 1..n |->
                                    Append(LeftRow(r, v[r]), StrCell(<<"o", "l", "d">>))]) }
                    : v \in [1..n -> Vessels] }
            : n \in 0..MaxRows }

RightTables ==
    UNION { { DataFrame(RightColumns, [r \in 1..n |-> RightRow(r, v[r], t[r])])
              : v \in [1..n -> Vessels], t \in [1..n -> TimePairs] }
            : n \in 0..MaxRows }

OldKeyChoices == { <<"Vessel", "Voy">>, <<"Vessel Name">> }
NewKeyChoices == { <<"Vessel", "Voy">>, <<"Vessel Name">> }
OldColChoices == { <<"X", "Vessel">>, <<"SCN">> }
NewColChoices ==
    { <<"ETB / ATB", "Proforma Berth">>,
      <<"Proforma Berth", "X", "ETB / ATB">>,
      <<"ETB / ATB">>,
      <<"SCN">> }

\* ------------------------------------------------------------ merge model
Init ==
    /\ old_file \in LeftTables
    /\ new_file \in RightTables
    /\ args \in [old_keys : OldKeyChoices, new_keys : NewKeyChoices,
                 old_cols : OldColChoices, new_cols : NewColChoices]
    /\ out = Effect(old_file, new_file, "none", NoTable, FALSE)
    /\ pc = "ready"
    /\ old_before = old_file
    /\ new_before = new_file

Finish(effect, op) ==
    /\ old_file' = effect.old_file
    /\ new_file' = effect.new_file
    /\ out' = effect
    /\ pc' = op
    /\ UNCHANGED <<args, old_before, new_before>>

Basic ==
    /\ pc = "ready"
    /\ Finish(extract_and_merge_columns_basic(old_file, new_file, args.old_keys,
                  args.new_keys, args.old_cols, args.new_cols), "basic")

WithDelay ==
    /\ pc = "ready"
    /\ Finish(extract_and_merge_columns_with_delay(old_file, new_file, args.old_keys,
                  args.new_keys, args.old_cols, args.new_cols), "with_delay")

MainBasic ==
    /\ pc = "ready"
    /\ Finish(main_basic(old_file, new_file, args.old_keys, args.new_keys,
                  args.old_cols, args.new_cols), "main_basic")

MainWithDelay ==
    /\ pc = "ready"
    /\ Finish(main_with_delay(old_file, new_file, args.old_keys, args.new_keys,
                  args.old_cols, args.new_cols), "main_with_delay")

Next == Basic \/ WithDelay \/ MainBasic \/ MainWithDelay

Spec == Init /\ [][Next]_vars

\* --------------------------------------------- calculate_delay_days alone
Hours == {0, 9, 10, 23}
Minutes == {0, 59}
Seconds == {0, 59}

TwoDigits(n) == <<Digits[(n \div 10) + 1], Digits[(n % 10) + 1]>>

\* a time of day as the reader hands it over: 'HH:MM:SS'
FormatTime(h, m, sec) == TwoDigits(h) \o <<":">> \o TwoDigits(m) \o <<":">> \o TwoDigits(sec)

TimeCells ==
    { StrCell(FormatTime(h, m, sec)) : h \in Hours, m \in Minutes, sec \in Seconds }
    \cup { StrCell(NotATime), StrCell(<<>>), NaN, IntCell(9),
           StrCell(<<"9", ":", "5", ":", "3">>),
           StrCell(<<"2", "4", ":", "0", "0", ":", "0", "0">>),
           StrCell(<<"1", "0", ":", "0", "0">>) }

Idle ==
    /\ old_file = NoTable
    /\ new_file = NoTable
    /\ old_before = NoTable
    /\ new_before = NoTable
    /\ pc = "ready"

InitDays ==
    /\ Idle
    /\ args \in [etb_atb : TimeCells, proforma : TimeCells]
    /\ out = <<>>

DelayDays ==
    /\ pc = "ready"
    /\ out' = calculate_delay_days(<<args.etb_atb>>, <<args.proforma>>)
    /\ pc' = "delay_days"
    /\ UNCHANGED <<old_file, new_file, args, old_before, new_before>>

NextDays == DelayDays

SpecDays == InitDays /\ [][NextDays]_vars

\* ------------------------------------------- calculate_delay_status alone
InitStatus ==
    /\ Idle
    /\ args \in [delay_days :
                    {NaN} \cup { NumCell(n) : n \in (-MaxStatusMagnitude)..MaxStatusMagnitude }]
    /\ out = <<>>

DelayStatus ==
    /\ pc = "ready"
    /\ out' = calculate_delay_status(args.delay_days)
    /\ pc' = "delay_status"
    /\ UNCHANGED <<old_file, new_file, args, old_before, new_before>>

NextStatus == DelayStatus

SpecStatus == InitStatus /\ [][NextStatus]_vars

\* ------------------------------------------------- the composite key alone
KeyCells ==
    { StrCell(<<"a">>), StrCell(<<"a", "_", "a">>), StrCell(<<>>), StrCell(<<"1">>),
      IntCell(1), NaN, StrCell(<<"n", "a", "n">>) }

\* the key cells of one row, in KeySpec order
KeyRows == UNION { [1..n -> KeyCells] : n \in 1..MaxKeyParts }

InitKey ==
    /\ Idle
    /\ args \in [a : KeyRows, b : KeyRows]
    /\ out = <<>>

BuildKeys ==
    /\ pc = "ready"
    /\ out' = [a |-> CompositeKey(args.a), b |-> CompositeKey(args.b)]
    /\ pc' = "keys"
    /\ UNCHANGED <<old_file, new_file, args, old_before, new_before>>

NextKey == BuildKeys

SpecKey == InitKey /\ [][NextKey]_vars

\* ================================================================ claims
Advance == StrCell(<<"A", "d", "v", "a", "n", "c", "e">>)
Delay == StrCell(<<"D", "e", "l", "a", "y">>)

\* a cell holding a string of exactly the shape HH:MM:SS, read by position
StrictHMS(c) ==
    /\ c.t = "str"
    /\ Len(c.s) = 8
    /\ c.s[3] = ":" /\ c.s[6] = ":"
    /\ \A i \in {1, 2, 4, 5, 7, 8} : IsDigit(c.s[i])
    /\ 10 * DigitVal(c.s[1]) + DigitVal(c.s[2]) <= 23
    /\ 10 * DigitVal(c.s[4]) + DigitVal(c.s[5]) <= 59
    /\ 10 * DigitVal(c.s[7]) + DigitVal(c.s[8]) <= 59

SecondsSinceMidnight(c) ==
    (10 * DigitVal(c.s[1]) + DigitVal(c.s[2])) * 3600
    + (10 * DigitVal(c.s[4]) + DigitVal(c.s[5])) * 60
    + (10 * DigitVal(c.s[7]) + DigitVal(c.s[8]))

\* C4: for two valid HH:MM:SS times calculate_delay_days returns the ceiling
\* of (etbAtb seconds - proforma seconds) / 86400, a value in {-1, 0, 1}:
\* 1 when etbAtb is strictly later, 0 when it is equal or earlier.
Thm_C4_DelayDaysIsCeiling ==
    (pc = "delay_days" /\ StrictHMS(args.etb_atb) /\ StrictHMS(args.proforma)) =>
        LET d == SecondsSinceMidnight(args.etb_atb) - SecondsSinceMidnight(args.proforma)
            r == out[1]
        IN  /\ r.t = "num"
            /\ r.n * 86400 >= d
            /\ (r.n - 1) * 86400 < d
            /\ r.n \in {-1, 0, 1}
            /\ (d > 0 => r.n = 1)
            /\ (d <= 0 => r.n = 0)

\* 09:59:00 against a proforma of 10:00:00 gives 0
Wit_C4_EarlierGivesZero ==
    /\ pc = "delay_days"
    /\ args.etb_atb = StrCell(T_09_59_00)
    /\ args.proforma = StrCell(T_10_00_00)
    /\ out = <<NumCell(0)>>

\* C5: calculate_delay_status returns null for a null delay, "Advance" exactly
\* on [-14, -1], "Delay" exactly on [1, 14], and null for every other value.
Thm_C5_StatusRanges ==
    pc = "delay_status" =>
        LET d == args.delay_days
        IN  /\ out \in {NaN, Advance, Delay}
            /\ IsNaN(d) => out = NaN
            /\ ~IsNaN(d) =>
                  /\ out = Advance <=> d.n \in (-14)..(-1)
                  /\ out = Delay <=> d.n \in 1..14
                  /\ out = NaN <=> (d.n = 0 \/ d.n < -14 \/ d.n > 14)

\* the boundary -14 is still an advance
Wit_C5_BoundaryAdvance ==
    /\ pc = "delay_status"
    /\ args.delay_days = NumCell(-14)
    /\ out = Advance

\* the key cells of two rows stringify identically, component by component
SameStrings(a, b) ==
    /\ Len(a) = Len(b)
    /\ \A i \in DOMAIN a : AsTypeStr(a[i]) = AsTypeStr(b[i])

\* no stringified key cell of the row contains the separator
NoSeparator(a) ==
    \A i \in DOMAIN a : \A j \in DOMAIN AsTypeStr(a[i]) : AsTypeStr(a[i])[j] # "_"

\* C9 as stated: the composite keys of two rows are equal if and only if the
\* key cells stringify identically, component by component.
Orig_C9_KeyEqualIffSameStrings ==
    pc = "keys" => (out.a = out.b <=> SameStrings(args.a, args.b))

\* C9 amended: rows whose key cells stringify identically have equal composite
\* keys; the converse holds when no stringified key cell contains '_'.
Thm_C9_KeyEquality ==
    pc = "keys" =>
        /\ SameStrings(args.a, args.b) => out.a = out.b
        /\ (NoSeparator(args.a) /\ NoSeparator(args.b) /\ out.a = out.b)
              => SameStrings(args.a, args.b)

\* the number 1 and the text '1' give the same two-part key
Wit_C9_NumberAndText ==
    /\ pc = "keys"
    /\ args.a = <<StrCell(<<"a">>), IntCell(1)>>
    /\ args.b = <<StrCell(<<"a">>), StrCell(<<"1">>)>>
    /\ out.a = out.b
    /\ out.a = <<"a", "_", "1">>

\* ------------------------------------------------- claims on the merge
BasicOk == pc \in {"basic", "main_basic"} /\ out.status = "ok"

WithDelayOp == pc \in {"with_delay", "main_with_delay"}

\* every key column and output column named by the call is in its table
KeysAndColsPresent ==
    /\ HasColumns(old_before, args.old_keys) /\ HasColumns(old_before, args.old_cols)
    /\ HasColumns(new_before, args.new_keys) /\ HasColumns(new_before, args.new_cols)

\* the key sets of the two projected tables
LeftKeySet ==
    { CompositeKey(Select(old_before, args.old_keys).rows[r]) : r \in DOMAIN old_before.rows }

RightKeySet ==
    { CompositeKey(Select(new_before, args.new_keys).rows[r]) : r \in DOMAIN new_before.rows }

\* rows 1 and 2 of the table carry the same vessel (its first column)
TwoRowsOneVessel(df) == Len(df.rows) = 2 /\ df.rows[1][1] = df.rows[2][1]

\* C1: the output of the basic merge has no two rows with equal UniqueKey,
\* also when keys repeat on either or both sides.
Thm_C1_UniqueKeys ==
    BasicOk =>
        \A i, j \in DOMAIN out.table.rows :
            i # j => out.table.rows[i][1] # out.table.rows[j][1]

\* the same key twice on the left and twice on the right leaves one row
Wit_C1_DuplicatesBothSides ==
    /\ pc = "basic" /\ out.status = "ok"
    /\ TwoRowsOneVessel(old_before) /\ TwoRowsOneVessel(new_before)
    /\ old_before.rows[1][1] = new_before.rows[1][1]
    /\ Len(out.table.rows) = 1

\* C2: every UniqueKey of the output is a key of both projected tables, and a
\* key found on one side only is dropped without an error.
Thm_C2_InnerJoinContainment ==
    /\ BasicOk =>
          \A r \in DOMAIN out.table.rows :
              /\ out.table.rows[r][1].s \in LeftKeySet
              /\ out.table.rows[r][1].s \in RightKeySet
    /\ (pc = "basic" /\ KeysAndColsPresent) => out.status = "ok"

\* vessels A and B on the left, one of them only on the right: one row
Wit_C2_OneSidedKeyDropped ==
    /\ pc = "basic" /\ out.status = "ok"
    /\ Cardinality(LeftKeySet) = 2
    /\ Cardinality(RightKeySet) = 1
    /\ Len(out.table.rows) = 1

\* a label listed on both sides carries the suffix, any other is kept
Renamed(names, others, suffix) ==
    [i \in DOMAIN names |->
        IF \E j \in DOMAIN others : others[j] = names[i]
        THEN names[i] \o suffix ELSE names[i]]

MergedLabels ==
    <<"UniqueKey">> \o Renamed(args.old_cols, args.new_cols, "_x")
                    \o Renamed(args.new_cols, args.old_cols, "_y")

\* C3 as stated: the output columns are exactly UniqueKey, the left output
\* columns and the right output columns, in caller order, none renamed, also
\* when a name is listed on both sides.
Orig_C3_ColumnsExactlyAsListed ==
    BasicOk => out.table.columns = <<"UniqueKey">> \o args.old_cols \o args.new_cols

\* C3 amended: the output columns are UniqueKey, the left output columns and
\* the right output columns in caller order, where a name listed on both sides
\* appears as name_x among the left and name_y among the right columns.
Thm_C3_ColumnsWithSuffixes ==
    BasicOk =>
        /\ out.table.columns = MergedLabels
        /\ \A r \in DOMAIN out.table.rows : Len(out.table.rows[r]) = Len(MergedLabels)
        /\ (\A i \in DOMAIN args.old_cols : ~InSeq(args.old_cols[i], args.new_cols))
              => out.table.columns = <<"UniqueKey">> \o args.old_cols \o args.new_cols

\* X is listed on both sides
Wit_C3_SharedName ==
    /\ pc = "basic" /\ out.status = "ok"
    /\ out.table.columns =
          <<"UniqueKey", "X_x", "Vessel", "Proforma Berth", "X_y", "ETB / ATB">>
    /\ Len(out.table.rows) > 0

\* the index of the first row of rows whose key (first cell) is key
FirstWith(rows, key) ==
    CHOOSE i \in DOMAIN rows : rows[i][1] = key /\ \A j \in 1..(i - 1) : rows[j][1] # key

\* C10: for every key on both sides the one output row combines the first left
\* row and the first right row with that key, and the output rows are in the
\* order in which their keys first occur in the left table.
Thm_C10_FirstWins ==
    BasicOk =>
        LET L == Select(old_file, <<"UniqueKey">> \o args.old_cols).rows
            R == Select(new_file, <<"UniqueKey">> \o args.new_cols).rows
            O == out.table.rows
        IN  /\ \A r \in DOMAIN O :
                  /\ \E i \in DOMAIN L : L[i][1] = O[r][1]
                  /\ \E j \in DOMAIN R : R[j][1] = O[r][1]
                  /\ O[r] = L[FirstWith(L, O[r][1])] \o Tail(R[FirstWith(R, O[r][1])])
            /\ \A r1, r2 \in DOMAIN O :
                  r1 < r2 => FirstWith(L, O[r1][1]) < FirstWith(L, O[r2][1])
            /\ \A i \in DOMAIN L :
                  (\E j \in DOMAIN R : R[j][1] = L[i][1])
                     => \E r \in DOMAIN O : O[r][1] = L[i][1]

\* two left rows and two different right rows share one key: the output row
\* is left row 1 with right row 1
Wit_C10_FirstPairSurvives ==
    /\ pc = "basic" /\ out.status = "ok"
    /\ TwoRowsOneVessel(old_before) /\ TwoRowsOneVessel(new_before)
    /\ new_before.rows[1][4] # new_before.rows[2][4]
    /\ args.old_cols = <<"X", "Vessel">>
    /\ args.new_cols = <<"Proforma Berth", "X", "ETB / ATB">>
    /\ Len(out.table.rows) = 1
    /\ out.table.rows[1][2] = StrCell(<<"x", "1">>)
    /\ out.table.rows[1][5] = StrCell(<<"y", "1">>)

\* in the with-delay mode: every named column exists, but the merged table
\* lacks ETB / ATB or Proforma Berth
DelayColumnMissing ==
    /\ WithDelayOp
    /\ KeysAndColsPresent
    /\ ~InSeq("ETB / ATB", MergedLabels) \/ ~InSeq("Proforma Berth", MergedLabels)

NoOutput == out.status # "ok" /\ out.table = NoTable

\* C7 as stated: a call that names an absent column (a key column, an output
\* column, or in the with-delay mode ETB / ATB or Proforma Berth absent from
\* the merged result) fails before any join work and produces no output.
Orig_C7_FailsBeforeJoin ==
    (pc # "ready" /\ (~KeysAndColsPresent \/ DelayColumnMissing)) =>
        (NoOutput /\ ~out.joined)

\* C7 amended: a call that names an absent key or output column fails before
\* any join work; a with-delay call whose merged result lacks ETB / ATB or
\* Proforma Berth fails after the join and the deduplication have run; in both
\* cases no output table is produced.
Thm_C7_FailsWithoutOutput ==
    pc # "ready" =>
        /\ ~KeysAndColsPresent => (NoOutput /\ ~out.joined)
        /\ DelayColumnMissing => (NoOutput /\ out.joined)

\* Proforma Berth was not requested: the call fails after the join
Wit_C7_FailsAfterJoin ==
    /\ pc = "with_delay"
    /\ args.new_cols = <<"ETB / ATB">>
    /\ KeysAndColsPresent
    /\ out.status = "KeyError"
    /\ out.joined
    /\ Len(old_before.rows) > 0 /\ Len(new_before.rows) > 0

\* the table keeps its rows and every column other than UniqueKey; UniqueKey
\* is the only column that may have been added
FrameKept(before, after) ==
    /\ Len(after.rows) = Len(before.rows)
    /\ \/ after.columns = before.columns
       \/ ~HasColumn(before, "UniqueKey")
          /\ after.columns = Append(before.columns, "UniqueKey")
    /\ \A r \in DOMAIN before.rows : \A j \in DOMAIN before.columns :
          before.columns[j] # "UniqueKey" => after.rows[r][j] = before.rows[r][j]

\* C8 as stated: after any call, successful or failed, the caller's two
\* tables have the columns and cell values they had before.
Orig_C8_InputsUntouched ==
    pc # "ready" => (old_file = old_before /\ new_file = new_before)

\* C8 amended: after any call the caller's tables keep their rows and every
\* column other than UniqueKey; the merge functions write a UniqueKey column
\* (added, or overwritten when present) into the left table once its key
\* columns exist and into the right table once the key columns of both tables
\* exist, also when the call then fails.
Thm_C8_OnlyUniqueKeyWritten ==
    pc # "ready" =>
        /\ FrameKept(old_before, old_file)
        /\ FrameKept(new_before, new_file)
        /\ pc \in {"basic", "with_delay"} =>
              /\ IF HasColumns(old_before, args.old_keys)
                 THEN /\ HasColumn(old_file, "UniqueKey")
                      /\ Column(old_file, "UniqueKey") = UniqueKeys(old_before, args.old_keys)
                 ELSE old_file = old_before
              /\ IF HasColumns(old_before, args.old_keys)
                    /\ HasColumns(new_before, args.new_keys)
                 THEN /\ HasColumn(new_file, "UniqueKey")
                      /\ Column(new_file, "UniqueKey") = UniqueKeys(new_before, args.new_keys)
                 ELSE new_file = new_before

\* the right key column is absent: the call fails, the left table has gained
\* its UniqueKey column and the right table is as before
Wit_C8_LeftWrittenOnFailure ==
    /\ pc = "basic"
    /\ out.status = "KeyError"
    /\ Len(old_before.rows) > 0
    /\ ~HasColumn(old_before, "UniqueKey")
    /\ HasColumn(old_file, "UniqueKey")
    /\ new_file = new_before

\* the value does not parse as '%H:%M:%S' (empty cells included)
Malformed(c) == ToDatetime(c) = NaT

ValidPair(e, p) == StrictHMS(e) /\ StrictHMS(p)

====
